---------------------------- MODULE Spec2Model ----------------------------
(***************************************************************************)
(* libconf: a reader of Key=Value configuration files.                     *)
(*                                                                         *)
(* The repository holds two versions of the library body:                  *)
(*   - src/unnamed/part_002, lines 60-285 (the libconf.c that matches      *)
(*     include/libconf.h, README.md and the tests of part_000): it trims   *)
(*     keys and values and stores every whole number as CONF_LONG;         *)
(*   - src/source/libconf.c: it copies keys and values untrimmed and       *)
(*     stores whole numbers in the int range as CONF_INT.                  *)
(* Both are modelled; the variable impl says which one a run executes.     *)
(*                                                                         *)
(* Text is modelled as sequences of one-character strings; a C buffer is   *)
(* a sequence read with a 0-based index (At) and a C string ends at NUL.   *)
(* The values of the inputs contain no 'e', 'x', 'i', 'n' or 'p', so       *)
(* strtod's exponent, hexadecimal, "inf" and "nan" forms cannot occur and  *)
(* the decimal form modelled below is all of strtod on these inputs.       *)
(***************************************************************************)
EXTENDS Integers, Sequences, FiniteSets, TLC

(***************************************************************************)
(* Characters and C strings                                                *)
(***************************************************************************)
NUL == "NUL"

Digits == <<"0", "1", "2", "3", "4", "5", "6", "7", "8", "9">>

isdigit(c) == \E d \in 1..10 : Digits[d] = c

DigitVal(c) == (CHOOSE d \in 1..10 : Digits[d] = c) - 1

\* <ctype.h> isspace in the C locale (no '\v' occurs in the inputs)
isspace(c) == c \in {" ", "\t", "\n", "\r", "\f"}

\* buf[i] with C's 0-based index
At(buf, i) == buf[i + 1]

Min(S) == CHOOSE x \in S : \A y \in S : x <= y

Max(S) == CHOOSE x \in S : \A y \in S : x >= y

\* strlen(buf + i): the number of characters before the next NUL
strlen(buf, i) == Min({j \in i..(Len(buf) - 1) : At(buf, j) = NUL}) - i

\* the C string at buf + i, without its NUL
CStr(buf, i) == SubSeq(buf, i + 1, i + strlen(buf, i))

\* strchr(buf, c) for the string at buf + 0: the index of the first c, or -1 (NULL)
strchr(buf, c) ==
    LET S == {j \in 0..(strlen(buf, 0) - 1) : At(buf, j) = c}
    IN  IF S = {} THEN -1 ELSE Min(S)

(***************************************************************************)
(* Unsigned numbers of 80 bits as five limbs of 16 bits, least significant *)
(* first: the integers of TLC are 32 bits wide, the program's long and     *)
(* double are not.                                                         *)
(***************************************************************************)
Base == 2 ^ 16

Zero == <<0, 0, 0, 0, 0>>

RECURSIVE MulAddFrom(_, _, _, _)
MulAddFrom(v, m, c, i) ==
    IF i > Len(v) THEN <<>>
    ELSE LET t == v[i] * m + c
         IN  <<t % Base>> \o MulAddFrom(v, m, t \div Base, i + 1)

\* v * m + a for small m and a
MulAdd(v, m, a) == MulAddFrom(v, m, a, 1)

Small(n) == MulAdd(Zero, 1, n)

\* -1, 0, 1 as v is below, equal to, above w
RECURSIVE CmpFrom(_, _, _)
CmpFrom(v, w, i) ==
    IF i = 0 THEN 0
    ELSE IF v[i] < w[i] THEN -1
    ELSE IF v[i] > w[i] THEN 1
    ELSE CmpFrom(v, w, i - 1)

Cmp(v, w) == CmpFrom(v, w, Len(v))

\* quotient and remainder of v by d, d <= 2^15
RECURSIVE DivFrom(_, _, _, _)
DivFrom(v, d, r, i) ==
    IF i = 0 THEN [q |-> <<>>, r |-> r]
    ELSE LET t    == r * Base + v[i]
             rest == DivFrom(v, d, t % d, i - 1)
         IN  [q |-> rest.q \o <<t \div d>>, r |-> rest.r]

DivSmall(v, d) == DivFrom(v, d, 0, Len(v))

\* the number of bits of a limb, and of v
RECURSIVE LimbBits(_)
LimbBits(x) == IF x = 0 THEN 0 ELSE 1 + LimbBits(x \div 2)

RECURSIVE BitLenFrom(_, _)
BitLenFrom(v, i) ==
    IF i = 0 THEN 0
    ELSE IF v[i] # 0 THEN 16 * (i - 1) + LimbBits(v[i])
    ELSE BitLenFrom(v, i - 1)

BitLen(v) == BitLenFrom(v, Len(v))

Pow2(n) == [i \in 1..5 |-> IF i = (n \div 16) + 1 THEN 2 ^ (n % 16) ELSE 0]

\* the decimal digits ds read as a number
RECURSIVE FromDigits(_, _)
FromDigits(ds, acc) ==
    IF ds = <<>> THEN acc
    ELSE FromDigits(Tail(ds), MulAdd(acc, 10, DigitVal(Head(ds))))


(***************************************************************************)
(* double, long and int                                                    *)
(*                                                                         *)
(* A double is [neg, int, frac]: its sign, its whole part and the decimal  *)
(* digits of its fractional part without trailing zeros.  A whole number   *)
(* is rounded to the 53 bits of a double's significand (nearest, ties to   *)
(* even).  A number with a fractional part carries its decimal digits: the *)
(* inputs give such numbers at most 15 significant digits (DBL_DIG), for   *)
(* which the decimal text identifies the double and the double is never a  *)
(* whole number.  A long is [neg, mag] with 64 bits (LP64, the Makefile's  *)
(* clang on Linux); an int is an integer of TLC.                           *)
(***************************************************************************)
DBL_MANT_DIG == 53

\* v rounded to DBL_MANT_DIG significant bits, for v below 2^68
RoundToDouble(v) ==
    LET s == BitLen(v) - DBL_MANT_DIG
    IN  IF s <= 0 THEN v
        ELSE LET d  == 2 ^ s
                 qr == DivSmall(v, d)
                 up == \/ 2 * qr.r > d
                       \/ 2 * qr.r = d /\ qr.q[1] % 2 = 1
             IN  MulAdd(IF up THEN MulAdd(qr.q, 1, 1) ELSE qr.q, d, 0)

RECURSIVE StripZeros(_)
StripZeros(ds) ==
    IF ds # <<>> /\ ds[Len(ds)] = "0" THEN StripZeros(SubSeq(ds, 1, Len(ds) - 1))
    ELSE ds

MkDouble(neg, d1, d2) ==
    LET frac == StripZeros(d2)
        whole == FromDigits(d1, Zero)
    IN  [neg |-> neg,
         int |-> IF frac = <<>> THEN RoundToDouble(whole) ELSE whole,
         frac |-> frac]

DZero == [neg |-> FALSE, int |-> Zero, frac |-> <<>>]

\* the number of characters from buf + i on that satisfy isspace / isdigit
\* (a NUL, which satisfies neither, follows in every buffer read)
SpaceRun(buf, i) == Min({j \in i..(Len(buf) - 1) : ~isspace(At(buf, j))}) - i

DigitRun(buf, i) == Min({j \in i..(Len(buf) - 1) : ~isdigit(At(buf, j))}) - i

\* strtod(buf + i, &end): [dval, end]; with no conversion dval is 0 and end is i
strtod(buf, i) ==
    LET j   == i + SpaceRun(buf, i)
        neg == At(buf, j) = "-"
        k   == IF At(buf, j) \in {"+", "-"} THEN j + 1 ELSE j
        n1  == DigitRun(buf, k)
        dot == At(buf, k + n1) = "."
        n2  == IF dot THEN DigitRun(buf, k + n1 + 1) ELSE 0
    IN  IF n1 + n2 = 0 THEN [dval |-> DZero, end |-> i]
        ELSE [dval |-> MkDouble(neg, SubSeq(buf, k + 1, k + n1),
                                SubSeq(buf, k + n1 + 2, k + n1 + 1 + n2)),
              end  |-> k + n1 + (IF dot THEN 1 + n2 ELSE 0)]

\* a long from its sign and magnitude (no negative zero)
MkLong(neg, mag) == [neg |-> neg /\ mag # Zero, mag |-> mag]

LongOf(n) == MkLong(n < 0, Small(IF n < 0 THEN 0 - n ELSE n))

LLONG_MAX == [neg |-> FALSE, mag |-> <<65535, 65535, 65535, 32767, 0>>]

LLONG_MIN == [neg |-> TRUE, mag |-> Pow2(63)]

\* whether dval, truncated toward zero, is a value of long long
InLongLong(d) ==
    \/ Cmp(d.int, Pow2(63)) < 0
    \/ d.neg /\ d.int = Pow2(63)

\* (long long)dval for a dval in range
DoubleToLL(d) == MkLong(d.neg, d.int)

\* the comparison with both sides converted: (long long)dval == (long long)dval
IsWholeBothCast(d) == d = d

\* (long long)dval == dval for a dval in range
IsWhole(d) == d.frac = <<>>

\* dval > INT_MAX || dval < INT_MIN, for a whole dval
OutsideInt(d) ==
    \/ ~d.neg /\ Cmp(d.int, Pow2(31)) >= 0
    \/ d.neg /\ Cmp(d.int, Pow2(31)) > 0

\* (int)dval for a whole dval in the int range
DoubleToInt(d) ==
    IF d.neg THEN (0 - d.int[2]) * Base - d.int[1] ELSE d.int[2] * Base + d.int[1]

\* (int)lval: the low 32 bits of the two's complement, as clang and gcc convert
LongToInt(l) ==
    LET l0 == l.mag[1]
        l1 == l.mag[2]
    IN  IF ~l.neg
        THEN IF l1 < 32768 THEN l1 * Base + l0 ELSE (l1 - Base) * Base + l0
        ELSE IF l1 < 32768 \/ (l1 = 32768 /\ l0 = 0)
             THEN (0 - l1) * Base - l0
             ELSE (Base - l1) * Base - l0

\* (float)dval: a float is modelled by the double it was rounded from
DoubleToFloat(d) == [float_of |-> d]

(***************************************************************************)
(* Types and constants of libconf.h                                        *)
(***************************************************************************)
MAX_KEY_LEN == 128

MAX_VAL_LEN == 256

\* the value cap of src/source/libconf.c, whose header is not in the repository
MAX_VALUE_LENGTH == 256

\* char line[512]
LINE_SIZE == 512

CONF_INT == "CONF_INT"

CONF_LONG == "CONF_LONG"

CONF_FLOAT == "CONF_FLOAT"

CONF_DOUBLE == "CONF_DOUBLE"

CONF_STRING == "CONF_STRING"

conf_type == {CONF_INT, CONF_LONG, CONF_FLOAT, CONF_DOUBLE, CONF_STRING, "CONF_CHAR"}

\* A null conf_data*.  A null block pointer and a null conf_pair* are 0 (blocks
\* and pairs are numbered from 1); a null key is NullKey.
NULL == [null |-> TRUE]

NullKey == <<"NULL">>

\* conf_value, a union: only the member that the pair's type names is ever read
\* (blk is the block that str points to)
NoValue == [ival |-> 0, lval |-> [neg |-> FALSE, mag |-> Zero],
            fval |-> DoubleToFloat(DZero), dval |-> DZero, str |-> <<>>, blk |-> 0]

\* the two versions of libconf.c
PART_002 == "unnamed/part_002"

LIBCONF_C == "source/libconf.c"

(***************************************************************************)
(* conf_load, one line at a time                                           *)
(***************************************************************************)
\* fgets(line, sizeof(line), fp): the characters read, <<>> at end of file
fgets(f, at) ==
    LET nl   == {j \in (at + 1)..Len(f) : f[j] = "\n"}
        stop == IF nl = {} THEN Len(f) ELSE Min(nl)
        n    == IF stop - at > LINE_SIZE - 1 THEN LINE_SIZE - 1 ELSE stop - at
    IN  SubSeq(f, at + 1, at + n)

\* the buffer after fgets wrote chunk and its NUL over it: what lay behind stays
Overwrite(buf, chunk) ==
    chunk \o <<NUL>> \o SubSeq(buf, Len(chunk) + 2, Len(buf))

\* `line[0] == '#'` or `!strchr(line, '=')`: the loop continues with the next line
Skipped(buf) == At(buf, 0) = "#" \/ strchr(buf, "=") = -1

\* The undefined outcome of a length computation (a size_t that wrapped below 0,
\* which strncpy then takes as a length near SIZE_MAX).
UB == -1

\* part_002, "Remove leading and trailing spaces from the key": key after the
\* first loop
KeyStart(buf, key0) == key0 + SpaceRun(buf, key0)

\* part_002: the values key_len can have after the second loop, UB among them.
\* key[key_len - 1] is read at buf[key + kl - 1]; a read behind the characters
\* ever written to the buffer, or before the buffer, finds an indeterminate
\* character: it is a space or it is not.
KeyLens(buf, key0) ==
    LET key    == KeyStart(buf, key0)
        kl     == strchr(buf, "=") - SpaceRun(buf, key0)
        unset  == {m \in 1..kl : key + m - 1 >= Len(buf)}
        stops  == {m \in 1..kl : key + m - 1 < Len(buf)
                                  /\ ~isspace(At(buf, key + m - 1))}
    IN  IF kl < 0 THEN {UB}
        ELSE unset \cup
             (IF stops # {} THEN {Max(stops)}
              ELSE IF key = 0 THEN {0, UB}
              ELSE IF isspace(At(buf, key - 1)) THEN {UB}
              ELSE {0})

\* strncpy(pair->key, key, key_len); pair->key[key_len] = '\0': the C string
\* left in pair->key
KeyText(buf, key, key_len) ==
    LET n == strlen(buf, key)
    IN  SubSeq(buf, key + 1, key + (IF key_len < n THEN key_len ELSE n))

\* source/libconf.c: strncpy(pair->key, line, pos - line)
KeyTextV1(buf) == SubSeq(buf, 1, strchr(buf, "="))

\* the same test with `end != pos + 1` added: no number where strtod converted
\* nothing
IsNumberConverted(buf) ==
    /\ strtod(buf, strchr(buf, "=") + 1).end # strchr(buf, "=") + 1
    /\ At(buf, strtod(buf, strchr(buf, "=") + 1).end) \in {"\n", NUL}

\* `*end == '\n' || *end == '\0'` after strtod(pos + 1, &end)
IsNumber(buf) ==
    At(buf, strtod(buf, strchr(buf, "=") + 1).end) \in {"\n", NUL}

\* part_002: a whole number is a CONF_LONG
Whole(d) == [type |-> CONF_LONG, value |-> [NoValue EXCEPT !.lval = DoubleToLL(d)]]

\* source/libconf.c: a whole number is a CONF_INT when an int holds it
WholeV1(d) ==
    IF OutsideInt(d) THEN [type |-> CONF_LONG, value |-> [NoValue EXCEPT !.lval = DoubleToLL(d)]]
    ELSE [type |-> CONF_INT, value |-> [NoValue EXCEPT !.ival = DoubleToInt(d)]]

\* The type and value of a number.  (long long)dval is undefined for a dval
\* outside long long: the conversion then yields LLONG_MIN (x86-64), saturates
\* (AArch64), and the comparison with dval goes either way.
NumberValues(im, d) ==
    IF InLongLong(d)
    THEN IF IsWhole(d) THEN {IF im = PART_002 THEN Whole(d) ELSE WholeV1(d)}
         ELSE {[type |-> CONF_DOUBLE, value |-> [NoValue EXCEPT !.dval = d]]}
    ELSE {[type |-> CONF_DOUBLE, value |-> [NoValue EXCEPT !.dval = d]],
          [type |-> CONF_LONG, value |-> [NoValue EXCEPT !.lval = LLONG_MAX]],
          [type |-> CONF_LONG, value |-> [NoValue EXCEPT !.lval = LLONG_MIN]]}

\* the size given to malloc for a string value
StrSize(im, buf) ==
    LET n   == strlen(buf, strchr(buf, "=") + 1)
        cap == IF im = PART_002 THEN MAX_VAL_LEN ELSE MAX_VALUE_LENGTH
    IN  IF n > cap THEN cap ELSE n

\* part_002, "remove leading spaces and '='": the characters skipped from pos on
SkipRun(buf, at) ==
    Min({j \in at..(Len(buf) - 1) :
            ~(isspace(At(buf, j)) \/ At(buf, j) = "=")}) - at

\* part_002: len after both loops of the string branch, or UB
StrLen(buf) ==
    LET eq    == strchr(buf, "=")
        n     == SkipRun(buf, eq)
        p     == eq + n
        len   == StrSize(PART_002, buf) - n
        stops == {m \in 1..len : ~isspace(At(buf, p + m - 1))}
    IN  IF len < 0 THEN UB
        ELSE IF stops # {} THEN Max(stops)
        ELSE IF isspace(At(buf, p - 1)) THEN UB
        ELSE 0

\* part_002: strncpy(pair->value.str, pos, len); pair->value.str[len] = '\0'
StrText(buf) ==
    LET p == strchr(buf, "=") + SkipRun(buf, strchr(buf, "="))
    IN  SubSeq(buf, p + 1, p + StrLen(buf))

\* source/libconf.c: strncpy(pair->value.str, pos + 1, len);
\* pair->value.str[len - 1] = '\0'
StrTextV1(buf) ==
    LET eq == strchr(buf, "=")
    IN  SubSeq(buf, eq + 2, eq + StrSize(LIBCONF_C, buf))

\* What one pass of the loop body can make of the line in buf, with the key
\* pointer at key0: the new key pointer, where the behaviour becomes undefined
\* (ub: "no", "key", "value") and the pair built.
Outcomes(im, buf, key0) ==
    LET eq   == strchr(buf, "=")
        keys == IF im = PART_002
                THEN {[ptr |-> KeyStart(buf, key0), len |-> kl] : kl \in KeyLens(buf, key0)}
                ELSE {[ptr |-> key0, len |-> eq]}
        vals == IF IsNumber(buf)
                THEN {[type |-> v.type, value |-> v.value, size |-> 0, ub |-> FALSE] :
                        v \in NumberValues(im, strtod(buf, eq + 1).dval)}
                ELSE IF im = PART_002
                THEN {[type |-> CONF_STRING, size |-> StrSize(im, buf),
                       ub |-> StrLen(buf) = UB,
                       value |-> IF StrLen(buf) = UB THEN NoValue
                                 ELSE [NoValue EXCEPT !.str = StrText(buf)]]}
                ELSE {[type |-> CONF_STRING, size |-> StrSize(im, buf), ub |-> FALSE,
                       value |-> [NoValue EXCEPT !.str = StrTextV1(buf)]]}
    IN  {[key  |-> k.ptr,
          ub   |-> IF k.len = UB \/ k.len >= MAX_KEY_LEN THEN "key"
                   ELSE IF v.ub THEN "value" ELSE "no",
          pair |-> [key   |-> IF k.len = UB \/ k.len >= MAX_KEY_LEN THEN <<>>
                              ELSE IF im = PART_002 THEN KeyText(buf, k.ptr, k.len)
                              ELSE KeyTextV1(buf),
                    type  |-> v.type,
                    value |-> v.value],
          size |-> v.size] : k \in keys, v \in vals}

(***************************************************************************)
(* The heap: every block malloc or realloc returned, with the number of    *)
(* times it was given to free.  A pointer is a block's index.              *)
(***************************************************************************)
Block(kind) == [kind |-> kind, frees |-> 0]

\* free(p) for every p of ps; free(NULL) does nothing
Free(h, ps) ==
    [b \in 1..Len(h) |-> IF b \in ps THEN [h[b] EXCEPT !.frees = @ + 1] ELSE h[b]]

\* conf_free without the loop that frees the string values
conf_free_shallow(d) ==
    IF d = NULL THEN {}
    ELSE {d.array, d.blk} \ {0}

\* conf_free(data): the blocks it frees
conf_free(d) ==
    IF d = NULL THEN {}
    ELSE {d.pairs[i].value.blk : i \in {j \in 1..d.count : d.pairs[j].type = CONF_STRING}}
         \cup ({d.array, d.blk} \ {0})

(***************************************************************************)
(* The accessors.  A conf_pair* is the index of the pair in data->pairs.   *)
(***************************************************************************)
\* conf_get_pair without the return in its loop: the last match is the result
conf_get_pair_last(d, k) ==
    IF d = NULL \/ k = NullKey THEN 0
    ELSE IF d.array = 0 THEN 0
    ELSE LET hit == {i \in 1..d.count : d.pairs[i].key = k}
         IN  IF hit = {} THEN 0 ELSE Max(hit)

\* conf_get_pair with `return data->pairs` for `return NULL` after the loop
conf_get_pair_first(d, k) ==
    IF d = NULL \/ k = NullKey THEN 0
    ELSE IF d.array = 0 THEN 0
    ELSE LET hit == {i \in 1..d.count : d.pairs[i].key = k}
         IN  IF hit = {} THEN 1 ELSE Min(hit)

conf_get_pair(d, k) ==
    IF d = NULL \/ k = NullKey THEN 0
    ELSE IF d.array = 0 THEN 0
    ELSE LET hit == {i \in 1..d.count : d.pairs[i].key = k}
         IN  IF hit = {} THEN 0 ELSE Min(hit)

\* part_002: CONF_INT and CONF_LONG are both returned
conf_get_int(d, k, default_value) ==
    LET pair == conf_get_pair(d, k)
    IN  IF pair = 0 THEN default_value
        ELSE IF d.pairs[pair].type = CONF_INT THEN d.pairs[pair].value.ival
        ELSE IF d.pairs[pair].type = CONF_LONG THEN LongToInt(d.pairs[pair].value.lval)
        ELSE default_value

\* source/libconf.c: CONF_INT only
conf_get_int_v1(d, k, default_value) ==
    LET pair == conf_get_pair(d, k)
    IN  IF pair # 0 /\ d.pairs[pair].type = CONF_INT THEN d.pairs[pair].value.ival
        ELSE default_value

\* conf_get_long with the conversions that conf_get_int and conf_get_float make
conf_get_long_coerce(d, k, default_value) ==
    LET pair == conf_get_pair(d, k)
    IN  IF pair = 0 THEN default_value
        ELSE IF d.pairs[pair].type = CONF_LONG THEN d.pairs[pair].value.lval
        ELSE IF d.pairs[pair].type = CONF_INT THEN LongOf(d.pairs[pair].value.ival)
        ELSE IF d.pairs[pair].type = CONF_DOUBLE THEN DoubleToLL(d.pairs[pair].value.dval)
        ELSE default_value

conf_get_long(d, k, default_value) ==
    LET pair == conf_get_pair(d, k)
    IN  IF pair # 0 /\ d.pairs[pair].type = CONF_LONG THEN d.pairs[pair].value.lval
        ELSE default_value

\* value.fval is a member no pair was given: no stored pair is a CONF_FLOAT
conf_get_float(d, k, default_value) ==
    LET pair == conf_get_pair(d, k)
    IN  IF pair = 0 THEN default_value
        ELSE IF d.pairs[pair].type = CONF_FLOAT THEN d.pairs[pair].value.fval
        ELSE IF d.pairs[pair].type = CONF_DOUBLE THEN DoubleToFloat(d.pairs[pair].value.dval)
        ELSE default_value

conf_get_double(d, k, default_value) ==
    LET pair == conf_get_pair(d, k)
    IN  IF pair # 0 /\ d.pairs[pair].type = CONF_DOUBLE THEN d.pairs[pair].value.dval
        ELSE default_value

\* a char* is [blk, str]: the block it points to and the C string there; the
\* pointer returned is pair->value.str, the store's own buffer
conf_get_string(d, k, default_value) ==
    LET pair == conf_get_pair(d, k)
    IN  IF pair # 0 /\ d.pairs[pair].type = CONF_STRING
        THEN [blk |-> d.pairs[pair].value.blk, str |-> d.pairs[pair].value.str]
        ELSE default_value

Getters == {"conf_get_int", "conf_get_long", "conf_get_float", "conf_get_double",
            "conf_get_string"}

\* the accessor named fn of version im
Get(im, fn, d, k, default_value) ==
    CASE fn = "conf_get_int" ->
            IF im = PART_002 THEN conf_get_int(d, k, default_value)
            ELSE conf_get_int_v1(d, k, default_value)
      [] fn = "conf_get_long" -> conf_get_long(d, k, default_value)
      [] fn = "conf_get_float" -> conf_get_float(d, k, default_value)
      [] fn = "conf_get_double" -> conf_get_double(d, k, default_value)
      [] fn = "conf_get_string" -> conf_get_string(d, k, default_value)

(***************************************************************************)
(* Inputs: the files conf_load is given and the calls made on its result   *)
(***************************************************************************)
\* the lines that may precede a file's last line
MaxPrefix == 1

Lead == {<<>>, <<" ">>, <<" ", " ">>}

KeyNames == {<<"a">>, <<"b", "c">>, <<>>}

Trail == {<<>>, <<" ">>}

\* lines that vary the key and the whitespace around it
KeyLines ==
    {l \o k \o t \o <<"=", "v", "\n">> : l \in Lead, k \in KeyNames, t \in Trail}

Numbers ==
    {<<"4", "2">>, <<"-", "5">>, <<"4", "2", ".", "0">>, <<"4", "2", ".", "5">>,
     <<"3", ".", "1", "4", "1", "5", "9">>,
     <<"2", "1", "4", "7", "4", "8", "3", "6", "4", "8">>,
     <<"3", "0", "0", "0", "0", "0", "0", "0", "0", "0">>,
     <<"9", "0", "0", "7", "1", "9", "9", "2", "5", "4", "7", "4", "0", "9", "9", "3">>,
     <<"9", "2", "2", "3", "3", "7", "2", "0", "3", "6", "8", "5", "4", "7", "7", "5",
       "8", "0", "8">>}

Texts == {<<"v">>, <<"s", " ", "t">>, <<"4", "v">>, <<"=">>, <<>>}

\* how a value is written: the whitespace before it, after it, and the line's end
Shapes ==
    {<< <<>>, <<>>, <<"\n">> >>, << <<" ">>, <<" ">>, <<"\n">> >>,
     << <<>>, <<"\r">>, <<"\n">> >>, << <<>>, <<>>, <<>> >>,
     << <<" ">>, <<>>, <<>> >>}

\* lines that vary the value, the whitespace around it and the line's end
ValueLines ==
    {<<"a", "=">> \o sh[1] \o v \o sh[2] \o sh[3] :
        v \in Numbers \cup Texts, sh \in Shapes}

\* comments, lines without '=' and blank lines
OtherLines ==
    {<<"#", "c", "=", "1", "\n">>, <<"#", " ", "x", "\n">>, <<"q", "\n">>, <<"\n">>}

Fill(n, c) == [i \in 1..n |-> c]

\* lines at the limits of line[512], key[MAX_KEY_LEN] and MAX_VAL_LEN: a
\* comment that fills one read of fgets and one that exceeds it, the longest
\* key that fits and the shortest that does not, values around the cap
LongLines ==
    {<<"#">> \o Fill(n, "c") \o <<"k", "=", "1", "\n">> :
        n \in {LINE_SIZE - 6, LINE_SIZE - 2}}
    \cup {Fill(n, "k") \o <<"=", "1", "\n">> : n \in {MAX_KEY_LEN - 1, MAX_KEY_LEN}}
    \cup {<<"a", "=">> \o Fill(n, "v") \o <<"\n">> :
            n \in {MAX_VAL_LEN - 1, MAX_VAL_LEN, MAX_VAL_LEN + 1}}

MainLines == KeyLines \cup ValueLines \cup OtherLines \cup LongLines

PrefixLines ==
    {<<" ", "p", "=", "1", "\n">>, <<"#", "c", "=", "1", "\n">>, <<"a", "=", "v", "\n">>}

RECURSIVE Prefixes(_)
Prefixes(n) ==
    IF n = 0 THEN {<<>>}
    ELSE Prefixes(n - 1) \cup {p \o l : p \in Prefixes(n - 1), l \in PrefixLines}

Files == {<<>>} \cup {p \o l : p \in Prefixes(MaxPrefix), l \in MainLines}

\* the keys that the calls on the result ask for: one that files hold, and NULL
QueryKeys == {<<"a">>, NullKey}

\* the default an accessor is given
Default(fn) ==
    CASE fn = "conf_get_int" -> -1
      [] fn = "conf_get_long" -> LongOf(-1)
      [] fn = "conf_get_float" -> DoubleToFloat([DZero EXCEPT !.neg = TRUE, !.int = Small(1)])
      [] fn = "conf_get_double" -> [DZero EXCEPT !.neg = TRUE, !.int = Small(1)]
      [] fn = "conf_get_string" -> [blk |-> 0, str |-> <<"f", "a", "i", "l", "e", "d">>]

(***************************************************************************)
(* The state machine                                                       *)
(***************************************************************************)
VARIABLES
    impl,       \* the version of libconf.c that runs
    readable,   \* whether fopen(filename, "r") succeeds
    file,       \* the characters of the file
    fpos,       \* the characters of it read so far
    fp,         \* "none", "open", "closed"
    line,       \* char line[512]: the characters written to it so far
    key,        \* part_002's `char* key = line`, as an index into line
    data,       \* conf_load's data: NULL or [blk, array, pairs, count]
    heap,       \* the blocks allocated
    pc,         \* "start", "opened", "loop", "returned", "ub", "freed"
    ret,        \* what conf_load returned
    res         \* the last accessor call on conf_load's result, and what it returned

vars == <<impl, readable, file, fpos, fp, line, key, data, heap, pc, ret, res>>

NoCall == [fn |-> "none"]

Init ==
    /\ impl \in {PART_002, LIBCONF_C}
    /\ readable \in BOOLEAN
    /\ file \in IF readable THEN Files ELSE {<<>>}
    /\ fpos = 0
    /\ fp = "none"
    /\ line = <<>>
    /\ key = 0
    /\ data = NULL
    /\ heap = <<>>
    /\ pc = "start"
    /\ ret = NULL
    /\ res = NoCall

\* fopen without `if (!fp) return NULL`
FopenUnchecked ==
    /\ pc = "start"
    /\ fp' = IF readable THEN "open" ELSE fp
    /\ pc' = "opened"
    /\ UNCHANGED <<impl, readable, file, fpos, line, key, data, heap, ret, res>>

\* FILE* fp = fopen(filename, "r"); if (!fp) return NULL;
Fopen ==
    /\ pc = "start"
    /\ IF readable
       THEN fp' = "open" /\ pc' = "opened"
       ELSE fp' = fp /\ pc' = "returned"
    /\ UNCHANGED <<impl, readable, file, fpos, line, key, data, heap, ret, res>>

\* conf_data* data = malloc(sizeof(conf_data)) succeeds
MallocData ==
    /\ pc = "opened"
    /\ heap' = Append(heap, Block("conf_data"))
    /\ data' = [blk |-> Len(heap) + 1, array |-> 0, pairs |-> <<>>, count |-> 0]
    /\ pc' = "loop"
    /\ UNCHANGED <<impl, readable, file, fpos, fp, line, key, ret, res>>

\* it fails: fclose(fp); return NULL;
MallocDataFails ==
    /\ pc = "opened"
    /\ fp' = "closed"
    /\ pc' = "returned"
    /\ UNCHANGED <<impl, readable, file, fpos, line, key, data, heap, ret, res>>

\* fgets returns NULL: fclose(fp); return data;
EndOfFile ==
    /\ pc = "loop"
    /\ fgets(file, fpos) = <<>>
    /\ fp' = "closed"
    /\ ret' = data
    /\ pc' = "returned"
    /\ UNCHANGED <<impl, readable, file, fpos, line, key, data, heap, res>>

\* the line buffer after the next fgets
NextLine == Overwrite(line, fgets(file, fpos))

\* a comment or a line without '=': continue
SkipLine ==
    /\ pc = "loop"
    /\ fgets(file, fpos) # <<>>
    /\ Skipped(NextLine)
    /\ line' = NextLine
    /\ fpos' = fpos + Len(fgets(file, fpos))
    /\ UNCHANGED <<impl, readable, file, fp, key, data, heap, pc, ret, res>>

\* fclose(fp); conf_free(data); return NULL; with the blocks in h allocated
Abort(h) ==
    /\ fp' = "closed"
    /\ heap' = Free(h, conf_free(data))
    /\ pc' = "returned"
    /\ line' = NextLine
    /\ fpos' = fpos + Len(fgets(file, fpos))
    /\ UNCHANGED <<impl, readable, file, data, ret, res>>

\* conf_pair* pair = malloc(sizeof(conf_pair)) fails
MallocPairFails ==
    /\ pc = "loop"
    /\ fgets(file, fpos) # <<>>
    /\ ~Skipped(NextLine)
    /\ Abort(heap)
    /\ UNCHANGED key

\* pair->value.str = malloc(len) fails
MallocStrFails ==
    /\ pc = "loop"
    /\ fgets(file, fpos) # <<>>
    /\ ~Skipped(NextLine)
    /\ \E o \in Outcomes(impl, NextLine, key) :
          /\ o.ub # "key"
          /\ o.pair.type = CONF_STRING
          /\ key' = o.key
          /\ Abort(Append(heap, Block("conf_pair")))

\* realloc(data->pairs, ...) fails
ReallocFails ==
    /\ pc = "loop"
    /\ fgets(file, fpos) # <<>>
    /\ ~Skipped(NextLine)
    /\ \E o \in Outcomes(impl, NextLine, key) :
          /\ o.ub = "no"
          /\ key' = o.key
          /\ Abort(Append(heap, Block("conf_pair")) \o
                   (IF o.pair.type = CONF_STRING THEN <<Block("str")>> ELSE <<>>))

\* the loop body's behaviour is undefined: a length wrapped, or the key does
\* not fit pair->key
Undefined ==
    /\ pc = "loop"
    /\ fgets(file, fpos) # <<>>
    /\ ~Skipped(NextLine)
    /\ \E o \in Outcomes(impl, NextLine, key) :
          /\ o.ub # "no"
          /\ key' = o.key
          /\ heap' = Append(heap, Block("conf_pair")) \o
                     (IF o.ub = "value" THEN <<Block("str")>> ELSE <<>>)
    /\ pc' = "ub"
    /\ line' = NextLine
    /\ fpos' = fpos + Len(fgets(file, fpos))
    /\ UNCHANGED <<impl, readable, file, fp, data, ret, res>>

\* the loop body with a pair of the same key replaced rather than one appended
\* (the store that "last occurrence wins" describes)
StoreLineReplacing ==
    /\ pc = "loop"
    /\ fgets(file, fpos) # <<>>
    /\ ~Skipped(NextLine)
    /\ \E o \in Outcomes(impl, NextLine, key) :
          LET isstr == o.pair.type = CONF_STRING
              pblk  == Len(heap) + 1
              sblk  == IF isstr THEN pblk + 1 ELSE 0
              ablk  == IF data.array # 0 THEN data.array
                       ELSE IF isstr THEN pblk + 2 ELSE pblk + 1
              h     == Append(heap, Block("conf_pair"))
                       \o (IF isstr THEN <<Block("str")>> ELSE <<>>)
                       \o (IF data.array = 0 THEN <<Block("pairs")>> ELSE <<>>)
              new   == [o.pair EXCEPT !.value.blk = sblk]
              same  == {i \in 1..data.count : data.pairs[i].key = new.key}
          IN  /\ o.ub = "no"
              /\ key' = o.key
              /\ heap' = Free(h, {pblk})
              /\ data' = IF same = {}
                         THEN [data EXCEPT !.array = ablk,
                                           !.pairs = Append(@, new),
                                           !.count = @ + 1]
                         ELSE [data EXCEPT !.pairs[Min(same)] = new]
    /\ line' = NextLine
    /\ fpos' = fpos + Len(fgets(file, fpos))
    /\ UNCHANGED <<impl, readable, file, fp, pc, ret, res>>

\* the pair is built and appended: data->pairs[data->count] = *pair;
\* data->count++; free(pair);
StoreLine ==
    /\ pc = "loop"
    /\ fgets(file, fpos) # <<>>
    /\ ~Skipped(NextLine)
    /\ \E o \in Outcomes(impl, NextLine, key) :
          LET isstr == o.pair.type = CONF_STRING
              pblk  == Len(heap) + 1
              sblk  == IF isstr THEN pblk + 1 ELSE 0
              ablk  == IF data.array # 0 THEN data.array
                       ELSE IF isstr THEN pblk + 2 ELSE pblk + 1
              h     == Append(heap, Block("conf_pair"))
                       \o (IF isstr THEN <<Block("str")>> ELSE <<>>)
                       \o (IF data.array = 0 THEN <<Block("pairs")>> ELSE <<>>)
              new   == [o.pair EXCEPT !.value.blk = sblk]
          IN  /\ o.ub = "no"
              /\ key' = o.key
              /\ heap' = Free(h, {pblk})
              /\ data' = [data EXCEPT !.array = ablk,
                                      !.pairs = Append(@, new),
                                      !.count = @ + 1]
    /\ line' = NextLine
    /\ fpos' = fpos + Len(fgets(file, fpos))
    /\ UNCHANGED <<impl, readable, file, fp, pc, ret, res>>

\* a call of an accessor on what conf_load returned
Call ==
    /\ pc = "returned"
    /\ \E fn \in Getters, k \in QueryKeys :
          res' = [fn |-> fn, key |-> k, val |-> Get(impl, fn, ret, k, Default(fn))]
    /\ UNCHANGED <<impl, readable, file, fpos, fp, line, key, data, heap, pc, ret>>

\* conf_get_pair on what conf_load returned
CallGetPair ==
    /\ pc = "returned"
    /\ \E k \in QueryKeys :
          res' = [fn |-> "conf_get_pair", key |-> k, val |-> conf_get_pair(ret, k)]
    /\ UNCHANGED <<impl, readable, file, fpos, fp, line, key, data, heap, pc, ret>>

\* conf_free on what conf_load returned
ConfFree ==
    /\ pc = "returned"
    /\ heap' = Free(heap, conf_free(ret))
    /\ pc' = "freed"
    /\ res' = NoCall
    /\ UNCHANGED <<impl, readable, file, fpos, fp, line, key, data, ret>>

Next ==
    \/ Fopen
    \/ MallocData
    \/ MallocDataFails
    \/ EndOfFile
    \/ SkipLine
    \/ MallocPairFails
    \/ MallocStrFails
    \/ ReallocFails
    \/ Undefined
    \/ StoreLine
    \/ Call
    \/ CallGetPair
    \/ ConfFree

Spec == Init /\ [][Next]_vars

(***************************************************************************)
(* The file as text: the lines, keys and values that the properties below  *)
(* speak of, read off the characters of the file and not off the loader    *)
(***************************************************************************)
\* the lines of a text, each with its "\n" when it has one
RECURSIVE TextLines(_)
TextLines(f) ==
    IF f = <<>> THEN <<>>
    ELSE LET nl == {i \in 1..Len(f) : f[i] = "\n"}
             n  == IF nl = {} THEN Len(f) ELSE Min(nl)
         IN  <<SubSeq(f, 1, n)>> \o TextLines(SubSeq(f, n + 1, Len(f)))

\* t without its leading and trailing whitespace
Trim(t) ==
    LET ink == {i \in 1..Len(t) : ~isspace(t[i])}
    IN  IF ink = {} THEN <<>> ELSE SubSeq(t, Min(ink), Max(ink))

IsComment(l) == Len(l) > 0 /\ l[1] = "#"

\* a line that is no comment and holds an '='
IsEntry(l) == ~IsComment(l) /\ \E i \in 1..Len(l) : l[i] = "="

\* the text before the first '=' of an entry line, and the text after it
KeyPart(l) == SubSeq(l, 1, Min({i \in 1..Len(l) : l[i] = "="}) - 1)

ValuePart(l) == SubSeq(l, Min({i \in 1..Len(l) : l[i] = "="}) + 1, Len(l))

\* conf_load returned a store
Loaded == pc = "returned" /\ ret # NULL

\* conf_load returned, and nothing was called on its result yet.  The accessors
\* take a const conf_data* and change nothing: every store that they can be
\* given is the ret of such a state.
Returned == pc = "returned" /\ res = NoCall

\* C1: after conf_load, every line that is no comment and holds an '=' has an
\* entry whose key is the text before the first '=' without its leading and
\* trailing whitespace, found by conf_get_pair under that key, whatever lines
\* precede it.  Stated of unnamed/part_002, the version that trims keys.
C1_KeyTrimmed ==
    (Loaded /\ impl = PART_002) =>
        \A i \in 1..Len(TextLines(file)) :
            LET l == TextLines(file)[i]
            IN  IsEntry(l) =>
                    /\ conf_get_pair(ret, Trim(KeyPart(l))) # 0
                    /\ \E j \in 1..ret.count : ret.pairs[j].key = Trim(KeyPart(l))

\* a line without the "\n" that ends it
Chomp(l) == IF Len(l) > 0 /\ l[Len(l)] = "\n" THEN SubSeq(l, 1, Len(l) - 1) ELSE l

\* the same key and value written with whitespace around both, and with "\r\n"
Padded(k, v) ==
    <<" ", " ">> \o k \o <<" ", " ", "=", " ", " ">> \o v \o <<" ", " ", "\n">>

CrLf(k, v) == k \o <<"=">> \o v \o <<"\r", "\n">>

\* the store in ret with its only pair replaced by the pair of outcome o
WithPair(o) ==
    [ret EXCEPT !.pairs = <<[o.pair EXCEPT !.value.blk = ret.pairs[1].value.blk]>>]

\* C2: the lines '  k  =  v  \n', 'k=v\n' and 'k=v\r\n' give an entry with the
\* same key, type tag and value, so that every typed accessor returns the same
\* for all three.  Stated of a file that is the one line 'k=v\n': the other
\* two spellings of it, read by the same loop, give the pair that was stored.
C2_SameEntry ==
    (Loaded /\ impl = PART_002 /\ Len(TextLines(file)) = 1 /\ IsEntry(file)) =>
        LET k == KeyPart(file)
            v == Chomp(ValuePart(file))
        IN  (k = Trim(k) /\ k # <<>> /\ v = Trim(v) /\ v # <<>>
                /\ file = k \o <<"=">> \o v \o <<"\n">>) =>
                \A alt \in {Padded(k, v), CrLf(k, v)} :
                    \A o \in Outcomes(impl, Overwrite(<<>>, fgets(alt, 0)), 0) :
                        /\ o.ub = "no"
                        /\ WithPair(o).pairs = ret.pairs
                        /\ \A fn \in Getters :
                              Get(impl, fn, WithPair(o), k, Default(fn))
                                = Get(impl, fn, ret, k, Default(fn))

\* whether strtod converts all of the text t, and t is not empty
CompleteNumber(t) == Len(t) > 0 /\ strtod(t \o <<NUL>>, 0).end = Len(t)

NumericGetters == {"conf_get_int", "conf_get_long", "conf_get_float", "conf_get_double"}

\* C3: for every line k=v whose v is no complete number and is shorter than the
\* cap, ended by "\n" or by the end of the file, conf_get_string(store, k, d)
\* returns exactly v without its leading and trailing whitespace, and the four
\* numeric accessors return their defaults.
C3_StringExact ==
    (Loaded /\ impl = PART_002) =>
        \A i \in 1..Len(TextLines(file)) :
            LET l == TextLines(file)[i]
                k == Trim(KeyPart(l))
                v == Trim(ValuePart(l))
            IN  (IsEntry(l) /\ v # <<>> /\ ~CompleteNumber(v)
                    /\ Len(ValuePart(l)) < MAX_VAL_LEN) =>
                    /\ conf_get_string(ret, k, Default("conf_get_string")).str = v
                    /\ \A fn \in NumericGetters :
                          Get(impl, fn, ret, k, Default(fn)) = Default(fn)

\* an integer literal: an optional '-' and digits, nothing else
IsIntLiteral(t) ==
    LET ds == IF Len(t) > 0 /\ t[1] = "-" THEN Tail(t) ELSE t
    IN  Len(ds) > 0 /\ \A i \in 1..Len(ds) : isdigit(ds[i])

\* the integer it denotes, exactly
IntLiteral(t) ==
    IF t[1] = "-" THEN MkLong(TRUE, FromDigits(Tail(t), Zero))
    ELSE MkLong(FALSE, FromDigits(t, Zero))

\* n is a value of a 32-bit int, of a 64-bit long
FitsInt(n) == Cmp(n.mag, Pow2(31)) < 0 \/ (n.neg /\ n.mag = Pow2(31))

FitsLong(n) == Cmp(n.mag, Pow2(63)) < 0 \/ (n.neg /\ n.mag = Pow2(63))

\* a long within the int range as an int
IntOf(n) == IF n.neg THEN (0 - n.mag[2]) * Base - n.mag[1] ELSE n.mag[2] * Base + n.mag[1]

\* C4: in unnamed/part_002, for every line k=n with n an integer literal in the
\* 32-bit int range, conf_get_int and conf_get_long both return n and the
\* string, float and double accessors return their defaults; for n outside
\* that range but within 64 bits, conf_get_long still returns n.
C4_IntegerLiteral ==
    (Loaded /\ impl = PART_002) =>
        \A i \in 1..Len(TextLines(file)) :
            LET l == TextLines(file)[i]
                k == Trim(KeyPart(l))
                t == Chomp(ValuePart(l))
                n == IntLiteral(t)
            IN  (IsEntry(l) /\ IsIntLiteral(t) /\ FitsLong(n)) =>
                    /\ conf_get_long(ret, k, Default("conf_get_long")) = n
                    /\ FitsInt(n) =>
                          /\ conf_get_int(ret, k, Default("conf_get_int")) = IntOf(n)
                          /\ \A fn \in {"conf_get_string", "conf_get_float", "conf_get_double"} :
                                Get(impl, fn, ret, k, Default(fn)) = Default(fn)

\* the defaults that the properties give an accessor
Defaults(fn) ==
    CASE fn = "conf_get_int" -> {Default(fn), 7}
      [] fn = "conf_get_long" -> {Default(fn), LongOf(7)}
      [] fn = "conf_get_float" -> {Default(fn), DoubleToFloat(DZero)}
      [] fn = "conf_get_double" -> {Default(fn), DZero}
      [] fn = "conf_get_string" -> {Default(fn), [blk |-> 0, str |-> <<>>]}

\* the type tag an accessor is named after
OwnTag(fn) ==
    CASE fn = "conf_get_int" -> CONF_INT
      [] fn = "conf_get_long" -> CONF_LONG
      [] fn = "conf_get_float" -> CONF_FLOAT
      [] fn = "conf_get_double" -> CONF_DOUBLE
      [] fn = "conf_get_string" -> CONF_STRING

\* the type tags for which an accessor returns the stored value
Accepted(im, fn) ==
    CASE fn = "conf_get_int" -> IF im = PART_002 THEN {CONF_INT, CONF_LONG} ELSE {CONF_INT}
      [] fn = "conf_get_float" -> {CONF_FLOAT, CONF_DOUBLE}
      [] OTHER -> {OwnTag(fn)}

StoredKeys(d) == {d.pairs[i].key : i \in 1..d.count}

\* the type tag of the entry that a lookup of k finds
FoundTag(d, k) == d.pairs[conf_get_pair(d, k)].type

\* C5 as stated: for every stored entry and every typed accessor, the accessor
\* returns its default_value whenever the entry's tag is not the accessor's own.
C5_NoCoercion ==
    Loaded =>
        \A k \in StoredKeys(ret), fn \in Getters :
            FoundTag(ret, k) # OwnTag(fn) =>
                \A d \in Defaults(fn) : Get(impl, fn, ret, k, d) = d

\* C5: for every stored entry and every typed accessor, the accessor returns
\* its default_value whenever the entry's tag is none of those it accepts:
\* conf_get_float accepts CONF_FLOAT and CONF_DOUBLE, the conf_get_int of
\* unnamed/part_002 accepts CONF_INT and CONF_LONG, every other accessor (and
\* the conf_get_int of source/libconf.c) accepts its own tag only.
C5_DefaultUnlessAccepted ==
    (Returned /\ ret # NULL) =>
        \A k \in StoredKeys(ret), fn \in Getters :
            FoundTag(ret, k) \notin Accepted(impl, fn) =>
                \A d \in Defaults(fn) : Get(impl, fn, ret, k, d) = d

\* conf_get_long was asked for a CONF_DOUBLE entry and returned its default
C5_Witness ==
    /\ Loaded
    /\ res.fn = "conf_get_long"
    /\ conf_get_pair(ret, res.key) # 0
    /\ FoundTag(ret, res.key) = CONF_DOUBLE
    /\ res.val = Default("conf_get_long")

\* the reads of fgets that conf_load makes of a file from position at on, and
\* those of them that its loop does not skip: the i-th is the line of entry i
RECURSIVE Reads(_, _)
Reads(f, at) ==
    IF fgets(f, at) = <<>> THEN <<>>
    ELSE <<fgets(f, at)>> \o Reads(f, at + Len(fgets(f, at)))

Kept(f) == SelectSeq(Reads(f, 0), LAMBDA c : ~Skipped(c \o <<NUL>>))

\* a decimal literal [-]digits[.digits]: its digits before the point, and
\* whether a digit other than 0 follows the point
WholeDigits(t) ==
    LET u == IF Len(t) > 0 /\ t[1] \in {"+", "-"} THEN Tail(t) ELSE t
    IN  SubSeq(u, 1, Min({i \in 0..Len(u) : i = Len(u) \/ ~isdigit(u[i + 1])}))

HasFraction(t) ==
    \E i, j \in 1..Len(t) : i < j /\ t[i] = "." /\ isdigit(t[j]) /\ t[j] # "0"

\* the double nearest to the literal is below 2^63 in magnitude
BelowTwo63(t) == Cmp(RoundToDouble(FromDigits(WholeDigits(t), Zero)), Pow2(63)) < 0

IntegerTyped(pair) == pair.type \in {CONF_INT, CONF_LONG}

\* the store that holds entry i of ret alone
Only(i) == [ret EXCEPT !.pairs = <<ret.pairs[i]>>, !.count = 1]

\* what C6 says of entry i, whose value is the literal t
TypedByFraction(i, t) ==
    LET pair == ret.pairs[i]
        d    == Default("conf_get_double")
    IN  /\ IntegerTyped(pair) <=> ~HasFraction(t)
        /\ ~IntegerTyped(pair) => pair.type = CONF_DOUBLE
        /\ IntegerTyped(pair) => conf_get_double(Only(i), pair.key, d) = d
        /\ pair.type = CONF_DOUBLE =>
              /\ conf_get_double(Only(i), pair.key, d) = pair.value.dval
              /\ pair.value.dval # d
              /\ \A fn \in {"conf_get_int", "conf_get_long"} :
                    Get(impl, fn, Only(i), pair.key, Default(fn)) = Default(fn)

\* C6 as stated: for every value that the numeric parse consumes completely,
\* the entry is integer-typed exactly when the number has a zero fractional
\* part and CONF_DOUBLE otherwise; conf_get_double returns its default for the
\* first, the number for the second, for which conf_get_int and conf_get_long
\* return their defaults.
C6_IntegerIffWhole ==
    Loaded =>
        \A i \in 1..ret.count :
            IsNumber(Kept(file)[i] \o <<NUL>>) =>
                TypedByFraction(i, Trim(ValuePart(Kept(file)[i])))

\* C6: the same, for every such value whose double is below 2^63 in magnitude.
C6_IntegerIffWholeInRange ==
    (Returned /\ ret # NULL) =>
        \A i \in 1..ret.count :
            LET t == Trim(ValuePart(Kept(file)[i]))
            IN  (IsNumber(Kept(file)[i] \o <<NUL>>) /\ BelowTwo63(t)) =>
                    TypedByFraction(i, t)

\* a file with 42.0 and one with 42.5 were loaded: the first is integer-typed,
\* the second a CONF_DOUBLE
C6_Witness ==
    /\ Loaded
    /\ ret.count > 0
    /\ LET t == Trim(ValuePart(Kept(file)[ret.count]))
       IN  \/ t = <<"4", "2", ".", "0">> /\ IntegerTyped(ret.pairs[ret.count])
           \/ t = <<"4", "2", ".", "5">> /\ ret.pairs[ret.count].type = CONF_DOUBLE

\* conf_load's loop as a function of the file: the sequences of pairs that it
\* can store from position at on when no allocation fails and no step is
\* undefined
RECURSIVE LoadFrom(_, _, _, _, _, _)
LoadFrom(im, f, at, buf, key0, pairs) ==
    LET chunk == fgets(f, at)
        b     == Overwrite(buf, chunk)
    IN  IF chunk = <<>> THEN {pairs}
        ELSE IF Skipped(b) THEN LoadFrom(im, f, at + Len(chunk), b, key0, pairs)
        ELSE UNION {LoadFrom(im, f, at + Len(chunk), b, o.key, Append(pairs, o.pair)) :
                        o \in {x \in Outcomes(im, b, key0) : x.ub = "no"}}

\* the entries of a store, without the addresses of their strings
Entries(d) == [i \in 1..d.count |-> [d.pairs[i] EXCEPT !.value.blk = 0]]

RECURSIVE Concat(_)
Concat(ls) == IF ls = <<>> THEN <<>> ELSE Head(ls) \o Concat(Tail(ls))

\* the file without its lines that begin with '#'
StripComments(f) == Concat(SelectSeq(TextLines(f), LAMBDA l : ~IsComment(l)))

\* C7: a line whose first character is '#' never adds an entry, whatever
\* follows on it, '=' and more characters than the line buffer holds included:
\* the entries of the store are those that loading the file without such lines
\* gives.
C7_CommentsIgnored ==
    (Loaded /\ impl = PART_002) =>
        Entries(ret) \in LoadFrom(impl, StripComments(file), 0, <<>>, 0, <<>>)

\* a step in which an allocation of conf_load fails
AllocationFails == MallocDataFails \/ MallocPairFails \/ MallocStrFails \/ ReallocFails

\* C8: on every allocation failure (the store, a pair, a string value, the
\* growth of the array) conf_load returns NULL and every block allocated during
\* the call has been freed exactly once.
C8_FailureFreesAll ==
    [][AllocationFails =>
          /\ pc' = "returned"
          /\ ret' = NULL
          /\ \A b \in 1..Len(heap') : heap'[b].frees = 1]_vars

\* the keys that C9 asks for: those of the inputs, more that no file holds, NULL
ProbeKeys ==
    QueryKeys \cup KeyNames
        \cup {<<"z">>, <<"A">>, <<"a", " ">>, <<" ", "a">>, <<"a", "=">>, <<"p">>, <<"k">>}

C10_UnopenedLoadsNothing ==
    ~readable =>
        /\ pc \in {"start", "returned", "freed"}
        /\ ret = NULL
        /\ data = NULL
        /\ heap = <<>>
        /\ fp = "none"

\* conf_load returned for a path that cannot be opened
C10_Witness == ~readable /\ pc = "returned" /\ ret = NULL /\ heap = <<>>

\* C11: after a successful conf_load, any number of accessor calls and one
\* conf_free, every block that conf_load allocated (the store, the array of
\* pairs, each string buffer, each temporary pair) has been freed exactly
\* once; conf_free(NULL) frees nothing.
C11_FreedExactlyOnce ==
    /\ conf_free(NULL) = {}
    /\ (pc = "freed" /\ ret # NULL) => \A b \in 1..Len(heap) : heap[b].frees = 1
    /\ (pc = "freed" /\ ~readable) => heap = <<>>

\* a store with two entries, a string among them, was freed
C11_Witness ==
    /\ pc = "freed"
    /\ ret # NULL
    /\ ret.count = 2
    /\ \E i \in 1..ret.count : ret.pairs[i].type = CONF_STRING
    /\ Len(heap) >= 5

\* the store that holds entry p of d alone, the empty store for p = 0
Single(d, p) ==
    IF p = 0 THEN [d EXCEPT !.pairs = <<>>, !.count = 0, !.array = 0]
    ELSE [d EXCEPT !.pairs = <<d.pairs[p]>>, !.count = 1]

\* C12: conf_get_pair(store, key) returns the entry of lowest index, in the
\* order of the file, whose stored key equals key exactly and over the whole
\* string, in a store with duplicate keys too; every typed accessor resolves
\* the key to that same entry.
C12_FirstMatch ==
    (Returned /\ ret # NULL) =>
        \A k \in ProbeKeys \ {NullKey} :
            LET p == conf_get_pair(ret, k)
            IN  /\ p \in 0..ret.count
                /\ p = 0 => \A j \in 1..ret.count : ret.pairs[j].key # k
                /\ p # 0 => /\ ret.pairs[p].key = k
                            /\ \A j \in 1..(p - 1) : ret.pairs[j].key # k
                /\ \A fn \in Getters :
                      Get(impl, fn, ret, k, Default(fn))
                          = Get(impl, fn, Single(ret, p), k, Default(fn))

\* a store with two entries under "a", a string first and a number second, was
\* asked for "a" as a string and as a long: the first entry answered both
C12_Witness ==
    /\ Loaded
    /\ ret.count = 2
    /\ ret.pairs[1].key = <<"a">> /\ ret.pairs[1].type = CONF_STRING
    /\ ret.pairs[2].key = <<"a">> /\ ret.pairs[2].type # CONF_STRING
    /\ \/ /\ res.fn = "conf_get_string"
          /\ res.key = <<"a">>
          /\ res.val.str = ret.pairs[1].value.str
       \/ /\ res.fn = "conf_get_pair"
          /\ res.key = <<"a">>
          /\ res.val = 1

\* the indices of the entries of d stored under k
Under(d, k) == {i \in 1..d.count : d.pairs[i].key = k}

\* C13 as stated: keys are unique within a loaded store and the last
\* occurrence wins: no two entries have equal keys, and a lookup by a key
\* that two lines of the file carry returns the value of the later line.
C13_UniqueLastWins ==
    Loaded =>
        /\ \A i, j \in 1..ret.count : i # j => ret.pairs[i].key # ret.pairs[j].key
        /\ \A k \in StoredKeys(ret) : conf_get_pair(ret, k) = Max(Under(ret, k))

\* the types and values that the loop body can give the line c
ValuesOf(im, c) ==
    {[type |-> o.pair.type, value |-> o.pair.value] :
        o \in Outcomes(im, c \o <<NUL>>, 0)}

\* C13: conf_load merges and replaces nothing: every line that it does not
\* skip appends an entry of its own, with that line's value, after the
\* entries of the lines before it, so that a store can hold equal keys; a
\* lookup by such a key returns the value of the earliest of these lines (the
\* first occurrence wins).
C13_AppendedFirstWins ==
    (Returned /\ ret # NULL) =>
        /\ ret.count = Len(Kept(file))
        /\ \A i \in 1..ret.count :
              [type |-> ret.pairs[i].type, value |-> Entries(ret)[i].value]
                  \in ValuesOf(impl, Kept(file)[i])
        /\ \A k \in StoredKeys(ret) :
              /\ conf_get_pair(ret, k) \in Under(ret, k)
              /\ \A i \in Under(ret, k) : conf_get_pair(ret, k) <= i
              /\ \A fn \in Getters :
                    Get(impl, fn, ret, k, Default(fn))
                        = Get(impl, fn, Single(ret, Min(Under(ret, k))), k, Default(fn))

\* the file had "a=v" and then a whole number under a: both are stored, and
\* conf_get_long for "a" returned its default, the first entry being a string
C13_Witness ==
    /\ Loaded
    /\ ret.count = 2
    /\ Under(ret, <<"a">>) = {1, 2}
    /\ ret.pairs[1].type = CONF_STRING
    /\ ret.pairs[2].type \in {CONF_INT, CONF_LONG}
    /\ res.fn = "conf_get_long"
    /\ res.key = <<"a">>
    /\ res.val = Default("conf_get_long")

\* the loop is about to run its body on the line that fgets reads next
AtLine == pc = "loop" /\ fgets(file, fpos) # <<>> /\ ~Skipped(NextLine)

\* t cut to its first n characters
Truncated(t, n) == IF Len(t) > n THEN SubSeq(t, 1, n) ELSE t

\* C14: for every line, the key stored in an entry has at most MAX_KEY_LEN - 1
\* characters before its terminator: a longer key text is truncated, not
\* rejected, and conf_load never writes outside the entry's key[MAX_KEY_LEN]
\* (the key_len characters that strncpy writes and the terminator at
\* key[key_len] all lie within it).  Stated of the lengths that the trimming
\* loops leave at 0 or above; those that wrap below 0 are the matter of C15.
C14_KeyBounded ==
    impl = PART_002 =>
        /\ AtLine => \A kl \in KeyLens(NextLine, key) \ {UB} : kl <= MAX_KEY_LEN - 1
        /\ Loaded =>
              /\ \A i \in 1..ret.count : Len(ret.pairs[i].key) <= MAX_KEY_LEN - 1
              /\ \A i \in 1..Len(TextLines(file)) :
                    LET l == TextLines(file)[i]
                    IN  (IsEntry(l) /\ Len(Trim(KeyPart(l))) > MAX_KEY_LEN - 1) =>
                            Truncated(Trim(KeyPart(l)), MAX_KEY_LEN - 1) \in StoredKeys(ret)

\* C15: a line whose key part is empty or only whitespace ('=v', '  =v') is
\* not rejected: conf_load completes, the key length computed is 0 and never
\* below it, the line buffer is not read before its start, and the store holds
\* an entry with the empty string as key, which conf_get_pair(store, "")
\* returns.
C15_EmptyKeyStored ==
    impl = PART_002 =>
        /\ (AtLine /\ Trim(KeyPart(fgets(file, fpos))) = <<>>) =>
              KeyLens(NextLine, key) = {0}
        /\ Loaded =>
              \A i \in 1..Len(TextLines(file)) :
                  LET l == TextLines(file)[i]
                  IN  (IsEntry(l) /\ Trim(KeyPart(l)) = <<>>) =>
                          /\ conf_get_pair(ret, <<>>) # 0
                          /\ ret.pairs[conf_get_pair(ret, <<>>)].key = <<>>

\* C16: with src/source/libconf.c, int values are stored as long values: for
\* every line k=n with n an integer literal, those within the 32-bit int range
\* included, conf_get_long(store, k, d) returns n for every default d.
C16_IntStoredAsLong ==
    (Loaded /\ impl = LIBCONF_C) =>
        \A i \in 1..Len(TextLines(file)) :
            LET l == TextLines(file)[i]
                k == KeyPart(l)
                t == Chomp(ValuePart(l))
            IN  (IsEntry(l) /\ k = Trim(k) /\ IsIntLiteral(t) /\ FitsLong(IntLiteral(t))) =>
                    \A d \in Defaults("conf_get_long") :
                        conf_get_long(ret, k, d) = IntLiteral(t)

\* C17: with the accessors of src/unnamed/part_002, conf_get_int(store, k, d)
\* returns the exact integer stored for k or the default d: for a stored
\* integer outside the 32-bit int range it returns d, never that integer
\* wrapped modulo 2^32.
C17_IntExactOrDefault ==
    (Loaded /\ impl = PART_002) =>
        \A k \in StoredKeys(ret) : \A d \in Defaults("conf_get_int") :
            LET pair == ret.pairs[conf_get_pair(ret, k)]
                r    == conf_get_int(ret, k, d)
            IN  IF pair.type = CONF_LONG /\ FitsInt(pair.value.lval)
                THEN r = IntOf(pair.value.lval)
                ELSE IF pair.type = CONF_INT THEN r = pair.value.ival
                ELSE r = d

\* C18: in the string branch of unnamed/part_002, for every line the length
\* used to copy the value stays between 0 and the size of the allocated buffer
\* minus 1 through both trimming loops, so that the copy and its NUL stay
\* inside the buffer and the line buffer is not read outside its bounds;
\* values of whitespace and '=' only and values longer than MAX_VAL_LEN
\* included.
C18_StringLengthBounded ==
    (impl = PART_002 /\ AtLine /\ ~IsNumber(NextLine)) =>
        /\ StrLen(NextLine) # UB
        /\ StrLen(NextLine) >= 0
        /\ StrLen(NextLine) <= StrSize(PART_002, NextLine) - 1

\* C19: a line with nothing between the '=' and its end ('k=\n', or 'k=' as
\* the end of the file) gives an integer-typed entry of value 0:
\* conf_get_int(store, k, d) returns 0 for every default d and
\* conf_get_string(store, k, d) returns d.
C19_EmptyValueIsZero ==
    Loaded =>
        \A i \in 1..Len(TextLines(file)) :
            LET l == TextLines(file)[i]
                k == KeyPart(l)
            IN  (IsEntry(l) /\ k = Trim(k) /\ k # <<>> /\ Chomp(ValuePart(l)) = <<>>) =>
                    /\ IntegerTyped(ret.pairs[conf_get_pair(ret, k)])
                    /\ \A d \in Defaults("conf_get_int") :
                          Get(impl, "conf_get_int", ret, k, d) = 0
                    /\ \A d \in Defaults("conf_get_string") : conf_get_string(ret, k, d) = d

\* C19 as a statement of the entry: in every store that conf_load returns, the
\* entry appended for a line with nothing between its '=' and its end is
\* integer-typed with value 0; whenever a lookup resolves to that entry (the
\* entry alone in a store, or first under its key), conf_get_int returns 0 for
\* every default d and conf_get_string returns d.
C19_EmptyValueEntryIsZero ==
    (Returned /\ ret # NULL) =>
        /\ ret.count = Len(Kept(file))
        /\ \A i \in 1..ret.count :
              Chomp(ValuePart(Kept(file)[i])) = <<>> =>
                  LET pair == ret.pairs[i]
                  IN  /\ IntegerTyped(pair)
                      /\ pair.type = CONF_LONG => pair.value.lval = LongOf(0)
                      /\ pair.type = CONF_INT => pair.value.ival = 0
                      /\ \A k \in {pair.key} \cup ProbeKeys :
                            \A st \in {Only(i)} \cup
                                       (IF conf_get_pair(ret, k) = i THEN {ret} ELSE {}) :
                                conf_get_pair(st, k) # 0 =>
                                    /\ \A d \in Defaults("conf_get_int") :
                                          Get(impl, "conf_get_int", st, k, d) = 0
                                    /\ \A d \in Defaults("conf_get_string") :
                                          conf_get_string(st, k, d) = d

\* the file was the line "a=" or "a=\n" alone, and conf_get_int for "a"
\* returned 0, not its default
C19_Witness ==
    /\ Loaded
    /\ file \in {<<"a", "=">>, <<"a", "=", "\n">>}
    /\ ret.count = 1
    /\ res.fn = "conf_get_int"
    /\ res.key = <<"a">>
    /\ res.val = 0
    /\ res.val # Default("conf_get_int")

=============================================================================
